---- MODULE Spec2Model ----
(***************************************************************************)
(* Plan pipeline of the trip-planning agent: agent/graph.py                *)
(* (run_agent_once, refine_plan, the Plan schema, the sanity trim),        *)
(* tools/tools_models_patched.py (chat_complete), tools/pois.py,           *)
(* tools/maps.py and the Refine button handler of streamlit_app.py.        *)
(*                                                                         *)
(* Encoding of Python/JSON values.                                         *)
(*   None            <<>>                                                  *)
(*   a scalar v      <<v>>   (strings are TLA+ strings; coordinates are    *)
(*                   integers counting hundredths of a degree)             *)
(*   a dict          a function from the keys that are present             *)
(*   a list          a sequence                                            *)
(* A text (str) the model returns is a record [form, doc]: the JSON text   *)
(* of doc ("plain"), that text inside a ``` fence ("fenced"), text that is *)
(* not JSON ("prose"); a content of None has form "none".                  *)
(***************************************************************************)
EXTENDS Integers, Sequences, FiniteSets, TLC

\* ------------------------------------------------------------------ bounds
\* invocations of Generate / Refine in one session
MaxOps == 2

\* items in the first day of a plan given to the sanity trim
MaxItems == 3

\* ------------------------------------------------------- program constants
Threshold_m == 5500
PoiCap == 20
FallbackDays == 3
MaxAssistantChars == 3000
DefaultDuration == 90

\* ----------------------------------------------------------- value helpers
None == <<>>

Some(v) == <<v>>

\* dict.get(k): the value under k, None when the key is absent
Get(d, k) == IF k \in DOMAIN d THEN d[k] ELSE None

\* Python truthiness of an optional number: None and 0 / 0.0 are falsy
TruthyNum(o) == o # None /\ o[1] # 0

\* Python truthiness of an optional string: None and "" are falsy
TruthyStr(o) == o # None /\ o[1] # ""

\* all([...]) over optional numbers
AllTruthy(os) == \A i \in 1..Len(os) : TruthyNum(os[i])

Min(a, b) == IF a <= b THEN a ELSE b

\* ------------------------------------------------------------------ schema
ItemKeys == {"time", "name", "type", "lat", "lon", "duration_min", "notes", "booking_url"}

\* str fields of ItinItem that are not Optional: None is rejected
ItemStrKeys == {"time", "name", "type"}

\* ItinItem field defaults
ItemDefault(k) ==
  CASE k = "time" -> Some("09:00")
    [] k = "type" -> Some("sight")
    [] k = "duration_min" -> Some(DefaultDuration)
    [] OTHER -> None

\* ItinItem accepts a dict that has a name and no None in a str field
ItemOK(it) ==
  /\ "name" \in DOMAIN it
  /\ \A k \in ItemStrKeys \cap DOMAIN it : it[k] # None

\* mutant of ItemDump: keys that ItinItem does not declare are carried over
ItemDump_keeping(it) ==
  [k \in ItemKeys \cup DOMAIN it |-> IF k \in DOMAIN it THEN it[k] ELSE ItemDefault(k)]

\* ItinItem(...).model_dump(): every declared field, defaults filled in
ItemDump(it) == [k \in ItemKeys |-> IF k \in DOMAIN it THEN it[k] ELSE ItemDefault(k)]

\* DayPlan accepts a dict with a str date and, when given, a list of ItinItem
DayOK(d) ==
  /\ "date" \in DOMAIN d
  /\ d["date"] # None
  /\ "items" \in DOMAIN d =>
       /\ d["items"] # None
       /\ \A i \in 1..Len(d["items"][1]) : ItemOK(d["items"][1][i])

DayDump(d) ==
  [date |-> d["date"][1],
   theme |-> Get(d, "theme"),
   items |-> IF "items" \in DOMAIN d
             THEN [i \in 1..Len(d["items"][1]) |-> ItemDump(d["items"][1][i])]
             ELSE <<>>]

PlanKeys == {"destination", "date_range", "daily_plan", "summary"}

\* Plan accepts a dict whose four fields are present and of the right shape
PlanOK(data) ==
  /\ PlanKeys \subseteq DOMAIN data
  /\ \A k \in PlanKeys : data[k] # None
  /\ \A i \in 1..Len(data["daily_plan"][1]) : DayOK(data["daily_plan"][1][i])

PlanDump(data) ==
  [destination |-> data["destination"][1],
   date_range |-> data["date_range"][1],
   daily_plan |-> [i \in 1..Len(data["daily_plan"][1]) |-> DayDump(data["daily_plan"][1][i])],
   summary |-> data["summary"][1]]

\* mutant of model_validate: the nested DayPlan / ItinItem checks are skipped
model_validate_shallow(data) ==
  IF PlanKeys \subseteq DOMAIN data /\ (\A k \in PlanKeys : data[k] # None)
  THEN [ok |-> TRUE, plan |-> PlanDump(data)]
  ELSE [ok |-> FALSE, plan |-> <<>>]

\* Plan.model_validate(data).model_dump(): [ok, plan]; ok = FALSE is the
\* ValidationError
model_validate(data) ==
  IF PlanOK(data) THEN [ok |-> TRUE, plan |-> PlanDump(data)]
  ELSE [ok |-> FALSE, plan |-> <<>>]

\* ------------------------------------------------------------ tools/maps.py
\* haversine_km, squared and in metres (m^2), on coordinates given in
\* hundredths of a degree within a degree of the equator, where
\* R * c = 1111.949 m * sqrt(dlat^2 + dlon^2) to a relative error below 1e-5
haversine_m2(lat1, lon1, lat2, lon2) ==
  1236431 * ((lat2 - lat1) * (lat2 - lat1) + (lon2 - lon1) * (lon2 - lon1))

\* haversine_km(...) > 5.5
TooFar(a, b) ==
  haversine_m2(a["lat"][1], a["lon"][1], b["lat"][1], b["lon"][1]) > Threshold_m * Threshold_m

\* ------------------------------------------------- sanity trim (long jumps)
\* `if last and all([last.get("lat"), last.get("lon"), it.get("lat"), it.get("lon")])`
BothLocated(last, it) ==
  /\ last # None
  /\ DOMAIN last[1] # {}
  /\ AllTruthy(<<Get(last[1], "lat"), Get(last[1], "lon"), Get(it, "lat"), Get(it, "lon")>>)

RECURSIVE PruneScan_tracking(_, _, _, _)
\* mutant of PruneScan: a dropped item becomes the comparison reference
PruneScan_tracking(items, i, pruned, last) ==
  IF i > Len(items) THEN pruned
  ELSE IF BothLocated(last, items[i]) /\ TooFar(last[1], items[i])
       THEN PruneScan_tracking(items, i + 1, pruned, Some(items[i]))
       ELSE PruneScan_tracking(items, i + 1, Append(pruned, items[i]), Some(items[i]))

RECURSIVE PruneScan(_, _, _, _)
\* the loop over day["items"]: pruned and last after items[i..]
PruneScan(items, i, pruned, last) ==
  IF i > Len(items) THEN pruned
  ELSE IF BothLocated(last, items[i]) /\ TooFar(last[1], items[i])
       THEN PruneScan(items, i + 1, pruned, last)
       ELSE PruneScan(items, i + 1, Append(pruned, items[i]), Some(items[i]))

\* mutant of PruneDay: the scan starts at the second item of the day
PruneDay_late(items) == PruneScan(items, 2, <<>>, None)

PruneDay(items) == PruneScan(items, 1, <<>>, None)

\* the loop over plan["daily_plan"]
SanityTrim(plan) ==
  [plan EXCEPT !.daily_plan =
     [i \in 1..Len(@) |-> [@[i] EXCEPT !.items = PruneDay(@)]]]

\* ------------------------------------------------------------ fallback plan
\* str(dt.date.today() + dt.timedelta(days=i))
TodayPlus(i) == <<"today+0", "today+1", "today+2", "today+3">>[i + 1]

NullCity == [city |-> None, country |-> None, lat |-> None, lon |-> None]

FallbackItems ==
  << [time |-> Some("09:00"), name |-> Some("Sightseeing"), type |-> Some("sight"),
      notes |-> Some("Visit iconic landmarks.")],
     [time |-> Some("14:00"), name |-> Some("Local cuisine"), type |-> Some("food"),
      notes |-> Some("Enjoy regional dishes and the occasional deep-fried salad.")] >>

\* mutant of FallbackPlan: the fallback forgets the resolved destination
FallbackPlan_unanchored(city, start, end) ==
  [destination |-> NullCity,
   date_range |-> [start |-> IF TruthyStr(start) THEN start[1] ELSE TodayPlus(0),
                   end |-> IF TruthyStr(end) THEN end[1] ELSE TodayPlus(3)],
   daily_plan |-> [i \in 1..FallbackDays |->
                     [date |-> TodayPlus(i - 1), theme |-> Some("Exploration"),
                      items |-> FallbackItems]],
   summary |-> [pace |-> "moderate", est_cost_gbp |-> 500, warnings |-> <<>>]]

FallbackPlan(city, start, end) ==
  [destination |-> city,
   date_range |-> [start |-> IF TruthyStr(start) THEN start[1] ELSE TodayPlus(0),
                   end |-> IF TruthyStr(end) THEN end[1] ELSE TodayPlus(3)],
   daily_plan |-> [i \in 1..FallbackDays |->
                     [date |-> TodayPlus(i - 1), theme |-> Some("Exploration"),
                      items |-> FallbackItems]],
   summary |-> [pace |-> "moderate", est_cost_gbp |-> 500, warnings |-> <<>>]]

\* ------------------------------------------------------------- model texts
NoDoc == <<>>

Plain(doc) == [form |-> "plain", doc |-> doc]

Fenced(doc) == [form |-> "fenced", doc |-> doc]

Prose == [form |-> "prose", doc |-> NoDoc]

EmptyText == [form |-> "empty", doc |-> NoDoc]

NoneText == [form |-> "none", doc |-> NoDoc]

\* the default "{}" of the .get chain
EmptyObjText == Plain(<<>>)

\* json.loads(text): [ok, data]; anything but the JSON text of a document raises
json_loads(text) ==
  IF text.form = "plain" THEN [ok |-> TRUE, data |-> text.doc]
  ELSE [ok |-> FALSE, data |-> NoDoc]

\* content2.strip().removeprefix("```json").removeprefix("```").removesuffix("```").strip();
\* None has no strip(): [ok |-> FALSE]
StripFence(text) ==
  CASE text.form = "none" -> [ok |-> FALSE, text |-> text]
    [] text.form = "fenced" -> [ok |-> TRUE, text |-> Plain(text.doc)]
    [] OTHER -> [ok |-> TRUE, text |-> text]

\* json.loads + Plan.model_validate(...).model_dump() of the first response
ParseFirst(content) ==
  LET j == json_loads(content)
  IN IF j.ok THEN model_validate(j.data) ELSE [ok |-> FALSE, plan |-> <<>>]

\* the inner try of the repair round: strip the fence, json.loads, validate
ParseRepair(content2) ==
  LET c == StripFence(content2)
  IN IF c.ok THEN ParseFirst(c.text) ELSE [ok |-> FALSE, plan |-> <<>>]

\* ------------------------------------------- tools/tools_models_patched.py
\* What an endpoint does with one POST: [net, status, body].
\*   net "refused"  nothing listening (requests.exceptions.ConnectionError)
\*   net "timeout"  no answer within the timeout (requests ReadTimeout)
\*   net "replied"  an HTTP response with that status and JSON body
\* A body is [shape, content]; for /v1/chat/completions
\*   "full"           {"choices": [{"message": {"content": content}}]}
\*   "no_choices"     {}
\*   "no_content"     {"choices": [{"message": {}}]}
\*   "empty_choices"  {"choices": []}
\*   "not_object"     a JSON value that is no object
\* and for /api/chat
\*   "full"           {"message": {"content": content}}
\*   "no_message"     {}
\*   "not_object"     a JSON value that is no object
Body(shape, content) == [shape |-> shape, content |-> content]

NoBody == Body("none", NoneText)

Refused == [net |-> "refused", status |-> 0, body |-> NoBody]

TimedOut == [net |-> "timeout", status |-> 0, body |-> NoBody]

Replied(status, body) == [net |-> "replied", status |-> status, body |-> body]

Returned(value) == [exc |-> "none", value |-> value]

Raised(exc) == [exc |-> exc, value |-> NoBody]

\* requests.post(...) followed by r.raise_for_status()
PostError(reply) ==
  CASE reply.net = "refused" -> "ConnectionError"
    [] reply.net = "timeout" -> "ReadTimeout"
    [] reply.status >= 400 -> "HTTPError"
    [] OTHER -> "none"

_try_openai(reply) ==
  IF reply.net # "replied" THEN Raised(PostError(reply))
  ELSE IF reply.status \in {404, 400} THEN Raised("RuntimeError")
  ELSE IF PostError(reply) # "none" THEN Raised(PostError(reply))
  ELSE IF reply.body.shape = "not_json" THEN Raised("JSONDecodeError")
  ELSE Returned(reply.body)

\* always answers in the completions envelope
_try_ollama(reply) ==
  IF PostError(reply) # "none" THEN Raised(PostError(reply))
  ELSE CASE reply.body.shape = "full" -> Returned(Body("full", reply.body.content))
         [] reply.body.shape = "no_message" -> Returned(Body("full", EmptyText))
         [] reply.body.shape = "not_json" -> Raised("JSONDecodeError")
         [] OTHER -> Raised("AttributeError")

\* mutant of chat_complete: the native request is sent along with the
\* generic one, whatever the generic one gave
chat_complete_eager(openai, native) ==
  LET first == _try_openai(openai)
      second == _try_ollama(native)
      both == <<"/v1/chat/completions", "/api/chat">>
  IN IF first.exc = "none"
     THEN [exc |-> "none", value |-> first.value, requests |-> both]
     ELSE [exc |-> second.exc, value |-> second.value, requests |-> both]

\* mutant of chat_complete: only a refused connection or an unsupported
\* route leads to the native request
chat_complete_strict(openai, native) ==
  LET first == _try_openai(openai)
      second == _try_ollama(native)
      both == <<"/v1/chat/completions", "/api/chat">>
  IN IF first.exc = "none"
     THEN [exc |-> "none", value |-> first.value, requests |-> <<"/v1/chat/completions">>]
     ELSE IF first.exc \in {"ConnectionError", "RuntimeError"}
     THEN [exc |-> second.exc, value |-> second.value, requests |-> both]
     ELSE [exc |-> first.exc, value |-> first.value, requests |-> <<"/v1/chat/completions">>]

\* chat_complete against an endpoint that answers /v1/chat/completions with
\* `openai` and /api/chat with `native`: [exc, value, requests]
chat_complete(openai, native) ==
  LET first == _try_openai(openai)
      second == _try_ollama(native)
      both == <<"/v1/chat/completions", "/api/chat">>
  IN IF first.exc = "none"
     THEN [exc |-> "none", value |-> first.value, requests |-> <<"/v1/chat/completions">>]
     ELSE IF first.exc = "ConnectionError"
     THEN [exc |-> second.exc, value |-> second.value, requests |-> both]
     ELSE [exc |-> second.exc, value |-> second.value, requests |-> both]

\* raw.get("choices", [{}])[0].get("message", {}).get("content", "{}"):
\* [exc, content]
ExtractContent(raw) ==
  CASE raw.shape = "full" -> [exc |-> "none", content |-> raw.content]
    [] raw.shape \in {"no_choices", "no_content"} -> [exc |-> "none", content |-> EmptyObjText]
    [] raw.shape = "empty_choices" -> [exc |-> "IndexError", content |-> NoneText]
    [] OTHER -> [exc |-> "AttributeError", content |-> NoneText]

\* ------------------------------------------------------------ tools/pois.py
Lisbon == [city |-> Some("Lisbon"), country |-> Some(""), lat |-> Some(3872), lon |-> Some(-914)]

\* find_city_center(query) when Nominatim answers `geo`: a hit, an empty
\* array, or an error (masked): Some(city) or None
find_city_center(query, geo) ==
  IF geo = "hit" THEN Some(Lisbon) ELSE None

Belem == [name |-> Some("Belem Tower"), lat |-> Some(3869), lon |-> Some(-922), type |-> Some("attraction")]

\* mutant of get_pois_nearby: an error leaves the elements of an earlier
\* answer in place
get_pois_nearby_stale(lat, lon, poi) ==
  IF poi \in {"some", "error"} THEN <<Belem>> ELSE <<>>

\* get_pois_nearby(lat, lon, ...) when Overpass answers `poi`: named
\* elements, no elements, or an error (masked): a list
get_pois_nearby(lat, lon, poi) ==
  IF poi = "some" THEN <<Belem>> ELSE <<>>

\* ------------------------------------------------------- inputs (bounded)
ItCastle == [name |-> Some("Castle"), time |-> Some("09:00"), type |-> Some("sight"),
             lat |-> Some(1), lon |-> Some(1), duration_min |-> Some(60),
             notes |-> Some("Go early."), booking_url |-> None]

\* 6.7 km from ItCastle
ItBeach == [name |-> Some("Beach"), time |-> Some("11:00"), type |-> Some("activity"),
            lat |-> Some(1), lon |-> Some(7), duration_min |-> None]

\* 1.1 km from ItCastle, 5.6 km from ItBeach
ItCafe == [name |-> Some("Cafe"), time |-> Some("13:00"), lat |-> Some(1), lon |-> Some(2)]

\* on the equator, 8.9 km apart
ItEquatorWest == [name |-> Some("Equator marker"), lat |-> Some(0), lon |-> Some(1)]

ItEquatorEast == [name |-> Some("Equator museum"), lat |-> Some(0), lon |-> Some(9)]

ItWalk == [name |-> Some("Walk")]

ItNameless == [time |-> Some("10:00"), lat |-> Some(1), lon |-> Some(1)]

Dest == Some([city |-> Some("Lisbon"), country |-> Some("Portugal"), lat |-> Some(3872), lon |-> Some(-914)])

Range == Some([start |-> "2024-05-01", end |-> "2024-05-02"])

Summary == Some([pace |-> "relaxed", est_cost_gbp |-> 300, warnings |-> <<>>])

Day(date, items) == [date |-> Some(date), theme |-> Some("Old town"), items |-> Some(items)]

Doc(days) == [destination |-> Dest, date_range |-> Range, daily_plan |-> Some(days), summary |-> Summary]

DocTour == Doc(<<Day("2024-05-01", <<ItCastle, ItBeach, ItCafe>>)>>)

DocEquator == Doc(<<Day("2024-05-01", <<ItEquatorWest, ItEquatorEast>>)>>)

DocSparse == Doc(<<Day("2024-05-01", <<ItWalk, ItBeach>>), [date |-> Some("2024-05-02")]>>)

DocNoSummary == [destination |-> Dest, date_range |-> Range,
                 daily_plan |-> Some(<<Day("2024-05-01", <<ItCastle>>)>>)]

DocNameless == Doc(<<Day("2024-05-01", <<ItCastle, ItNameless>>)>>)

GoodDocs == {DocTour, DocEquator, DocSparse}

BadDocs == {DocNoSummary, DocNameless}

\* the texts a model answers with
Contents ==
  {Plain(d) : d \in GoodDocs \cup BadDocs} \cup {Fenced(DocTour), Prose, NoneText}

OpenAIBodies ==
  {Body("full", c) : c \in Contents}
    \cup {Body(s, NoneText) : s \in {"no_choices", "no_content", "empty_choices", "not_object"}}

NativeBodies ==
  {Body("full", c) : c \in {Plain(DocTour), Prose}} \cup {Body("no_message", NoneText)}

\* what the endpoint does with the two requests of one chat_complete call;
\* the native reply is only looked at when the first request failed
Endpoints ==
  {<<Replied(200, b), Refused>> : b \in OpenAIBodies}
    \cup {<<f, Replied(200, b)>> : f \in {Refused, Replied(404, NoBody)}, b \in NativeBodies}
    \cup {<<Replied(500, NoBody), Replied(200, Body("full", Plain(DocSparse)))>>,
          <<TimedOut, Replied(200, Body("not_object", NoneText))>>,
          <<Refused, Refused>>,
          <<Replied(400, NoBody), Replied(500, NoBody)>>,
          <<Replied(500, NoBody), TimedOut>>}

Intents ==
  {[origin |-> Some("London"), dest |-> Some(d), start |-> Some("2024-05-01"),
    end |-> Some("2024-05-01"), description |-> Some("sun and food")] : d \in {"", "Lisbon"}}
    \cup {<<>>}

GeoAnswers == {"hit", "empty", "error"}

WeatherAnswers == {"ok", "error"}

PoiAnswers == {"some", "none", "error"}

RefineTexts == {"make it cheaper"}

\* --------------------------------------------------------------- the state
VARIABLES
  messages,  \* TripState.messages
  intent,    \* TripState.intent
  plan,      \* TripState.plan: None or Some(plan)
  pc,        \* "idle", or where run_agent_once waits for the model
  frame,     \* locals of the running run_agent_once: None or Some(record)
  ops,       \* invocations started in this session
  op,        \* the latest invocation: "none", "Generate", "Refine"
  outcome,   \* how it ended: "none", "running", "returned", "raised"
  exc,       \* the exception it raised to its caller, or "none"
  calls,     \* chat_complete calls it made
  origin,    \* the function that raised it: "none", "chat_complete", or the handler
  parsed,    \* for each content it extracted, in order: did it parse and validate
  pre,       \* [plan, messages, intent] when it was invoked
  notice,    \* what the Refine button handler showed last
  fn,        \* function applications: the function applied, "none" before
  arg,       \* function applications: its argument
  res        \* function applications: its result

state == <<messages, intent, plan>>

calc == <<fn, arg, res>>

vars == <<messages, intent, plan, pc, frame, ops, op, outcome, exc, calls, origin, parsed, pre,
          notice, fn, arg, res>>

Msg(role, content) == [role |-> role, content |-> content]

Persona == Msg("system", [text |-> "PERSONA"])

SystemMsg == Msg("system", [text |-> "SYSTEM_INSTRUCT"])

\* the user message of run_agent_once: the prompt around json.dumps(user_task)
TaskMsg(user_task) == Msg("user", [text |-> "generate", task |-> user_task])

\* the user message of refine_plan: the request and json.dumps(base_plan)
RefineMsg(text, base_plan) ==
  Msg("user", [text |-> "refine", request |-> text, plan |-> base_plan])

\* json.dumps(plan)[:3000]: the serialized plan, cut after MaxAssistantChars
AssistantMsg(p) ==
  Msg("assistant", [text |-> "json", plan |-> p, cut |-> MaxAssistantChars])

\* TripState()
Fresh ==
  /\ messages = <<Persona>>
  /\ intent = <<>>
  /\ plan = None
  /\ pc = "idle"
  /\ frame = None
  /\ ops = 0
  /\ op = "none"
  /\ outcome = "none"
  /\ exc = "none"
  /\ calls = 0
  /\ origin = "none"
  /\ parsed = <<>>
  /\ pre = [plan |-> None, messages |-> <<Persona>>, intent |-> <<>>]
  /\ notice = "none"

Init ==
  /\ Fresh
  /\ fn = "none"
  /\ arg = <<>>
  /\ res = <<>>

\* intent.get("dest") or intent.get("destination") or ""
DestQuery(i) ==
  IF TruthyStr(Get(i, "dest")) THEN Get(i, "dest")[1]
  ELSE IF TruthyStr(Get(i, "destination")) THEN Get(i, "destination")[1]
  ELSE ""

\* mutant of ResolveCity: a destination that was not found is named after
\* the query
ResolveCity_echoing(i, geo) ==
  LET found == IF DestQuery(i) # "" THEN find_city_center(DestQuery(i), geo) ELSE None
  IN IF found # None THEN found[1] ELSE [NullCity EXCEPT !.city = Some(DestQuery(i))]

\* the destination lookup: the geocoder's hit, else the all-null placeholder
ResolveCity(i, geo) ==
  LET found == IF DestQuery(i) # "" THEN find_city_center(DestQuery(i), geo) ELSE None
  IN IF found # None THEN found[1] ELSE NullCity

\* the weather lookup: attempted for a resolved city, any error absorbed
ResolveWeather(city, w) ==
  IF TruthyStr(city.city) /\ w = "ok" THEN Some("forecast") ELSE None

\* the POI lookup and the hint list: the first PoiCap named results
PoiHint(city, poi) ==
  LET pois == IF TruthyNum(city.lat) /\ TruthyNum(city.lon)
              THEN get_pois_nearby(city.lat[1], city.lon[1], poi) ELSE <<>>
      head == SubSeq(pois, 1, Min(Len(pois), PoiCap))
      named == SelectSeq(head, LAMBDA q : TruthyStr(Get(q, "name")))
  IN [k \in 1..Len(named) |->
        [name |-> Get(named[k], "name"), lat |-> Get(named[k], "lat"), lon |-> Get(named[k], "lon")]]

\* what each collaborator did for this invocation: "skipped" where the guard
\* (`if dest_query`, `if city.get("city")`, `if city.get("lat") and
\* city.get("lon")`) kept it from being called
Lookups(i, city, geo, w, poi) ==
  [geocoder |-> IF DestQuery(i) # "" THEN geo ELSE "skipped",
   weather |-> IF TruthyStr(city.city) THEN w ELSE "skipped",
   pois |-> IF TruthyNum(city.lat) /\ TruthyNum(city.lon) THEN poi ELSE "skipped"]

UserTask(i, city, poi_hint) ==
  [origin |-> Get(i, "origin"),
   destination |-> city,
   start |-> Get(i, "start"),
   description |-> Get(i, "description"),
   poi_hint |-> poi_hint]

\* mutant of Raise: the request transcript was stored before the model call
Raise_after_recording(e, by) ==
  /\ pc' = "idle"
  /\ frame' = None
  /\ outcome' = "raised"
  /\ exc' = e
  /\ origin' = by
  /\ messages' = frame[1].messages
  /\ UNCHANGED <<intent, plan>>

\* an invocation ends by raising e to its caller: TripState is untouched
Raise(e, by) ==
  /\ pc' = "idle"
  /\ frame' = None
  /\ outcome' = "raised"
  /\ exc' = e
  /\ origin' = by
  /\ UNCHANGED state

\* mutant of Commit: the transcript is restarted from the latest exchange
Commit_restarting(p, request) ==
  /\ plan' = Some(p)
  /\ messages' = SubSeq(request, Len(request) - 1, Len(request)) \o <<AssistantMsg(p)>>
  /\ pc' = "idle"
  /\ frame' = None
  /\ outcome' = "returned"
  /\ exc' = "none"
  /\ origin' = "none"
  /\ UNCHANGED intent

\* mutant of Commit: after a repair round its prompt is stored as well
Commit_with_repair(p, request) ==
  /\ plan' = Some(p)
  /\ messages' = request
                   \o (IF pc = "repair_call" THEN <<Msg("user", [text |-> "repair"])>> ELSE <<>>)
                   \o <<AssistantMsg(p)>>
  /\ pc' = "idle"
  /\ frame' = None
  /\ outcome' = "returned"
  /\ exc' = "none"
  /\ origin' = "none"
  /\ UNCHANGED intent

\* `state.plan = plan; state.messages = messages + [assistant]; return state`
Commit(p, request) ==
  /\ plan' = Some(p)
  /\ messages' = request \o <<AssistantMsg(p)>>
  /\ pc' = "idle"
  /\ frame' = None
  /\ outcome' = "returned"
  /\ exc' = "none"
  /\ origin' = "none"
  /\ UNCHANGED intent

\* The Generate Plan button sets state.intent and calls run_agent_once, which
\* runs up to its first chat_complete call.
GenerateBegin(i, geo, w, poi) ==
  /\ pc = "idle"
  /\ ops < MaxOps
  /\ LET city == ResolveCity(i, geo)
         request == messages \o <<SystemMsg, TaskMsg(UserTask(i, city, PoiHint(city, poi)))>>
     IN frame' = Some([city |-> city, start |-> Get(i, "start"), end |-> Get(i, "end"),
                       weather |-> ResolveWeather(city, w), messages |-> request,
                       content |-> NoneText, lookups |-> Lookups(i, city, geo, w, poi)])
  /\ intent' = i
  /\ pc' = "first_call"
  /\ ops' = ops + 1
  /\ op' = "Generate"
  /\ outcome' = "running"
  /\ exc' = "none"
  /\ calls' = 0
  /\ origin' = "none"
  /\ parsed' = <<>>
  /\ pre' = [plan |-> plan, messages |-> messages, intent |-> i]
  /\ notice' = "none"
  /\ UNCHANGED <<messages, plan, fn, arg, res>>

\* run_agent_once from chat_complete(messages) to the repair call, or to its
\* end when the first response validates or something raises
GenerateFirstCall(openai, native) ==
  /\ pc = "first_call"
  /\ LET raw == chat_complete(openai, native)
         x == ExtractContent(raw.value)
         v == ParseFirst(x.content)
     IN /\ calls' = calls + 1
        /\ IF raw.exc # "none" THEN Raise(raw.exc, "chat_complete") /\ parsed' = parsed
           ELSE IF x.exc # "none" THEN Raise(x.exc, "run_agent_once") /\ parsed' = parsed
           ELSE /\ parsed' = Append(parsed, v.ok)
                /\ IF v.ok THEN Commit(SanityTrim(v.plan), frame[1].messages)
                   ELSE /\ pc' = "repair_call"
                        /\ frame' = Some([frame[1] EXCEPT !.content = x.content])
                        /\ UNCHANGED <<state, outcome, exc, origin>>
  /\ UNCHANGED <<ops, op, pre, notice, fn, arg, res>>

\* run_agent_once from chat_complete(repair_prompt) to its end
GenerateRepairCall(openai, native) ==
  /\ pc = "repair_call"
  /\ LET raw == chat_complete(openai, native)
         x == ExtractContent(raw.value)
         v == ParseRepair(x.content)
         f == frame[1]
     IN /\ calls' = calls + 1
        /\ IF raw.exc # "none" THEN Raise(raw.exc, "chat_complete") /\ parsed' = parsed
           ELSE IF x.exc # "none" THEN Raise(x.exc, "run_agent_once") /\ parsed' = parsed
           ELSE /\ parsed' = Append(parsed, v.ok)
                /\ Commit(SanityTrim(IF v.ok THEN v.plan ELSE FallbackPlan(f.city, f.start, f.end)),
                          f.messages)
  /\ UNCHANGED <<ops, op, pre, notice, fn, arg, res>>

\* mutant of refine_plan: a failed refinement keeps the request messages
refine_plan_recording(text, openai, native) ==
  LET request == messages \o <<SystemMsg, RefineMsg(text, plan[1])>>
      raw == chat_complete(openai, native)
      x == ExtractContent(raw.value)
      v == ParseFirst(x.content)
      kept == [exc |-> "none", origin |-> "none", plan |-> plan, messages |-> messages,
               calls |-> 1, parsed |-> <<>>]
  IN IF plan = None THEN [kept EXCEPT !.calls = 0]
     ELSE IF raw.exc # "none" THEN [kept EXCEPT !.exc = raw.exc, !.origin = "chat_complete"]
     ELSE IF x.exc # "none" THEN [kept EXCEPT !.exc = x.exc, !.origin = "refine_plan"]
     ELSE IF v.ok
     THEN [kept EXCEPT !.plan = Some(v.plan),
                       !.messages = request \o <<AssistantMsg(v.plan)>>,
                       !.parsed = <<TRUE>>]
     ELSE [kept EXCEPT !.messages = request, !.parsed = <<FALSE>>]

\* mutant of refine_plan: no `if not state.plan` guard, the absent plan is
\* sent as null
refine_plan_unguarded(text, openai, native) ==
  LET request == messages \o <<SystemMsg, RefineMsg(text, plan)>>
      raw == chat_complete(openai, native)
      x == ExtractContent(raw.value)
      v == ParseFirst(x.content)
      kept == [exc |-> "none", origin |-> "none", plan |-> plan, messages |-> messages,
               calls |-> 1, parsed |-> <<>>]
  IN IF raw.exc # "none" THEN [kept EXCEPT !.exc = raw.exc, !.origin = "chat_complete"]
     ELSE IF x.exc # "none" THEN [kept EXCEPT !.exc = x.exc, !.origin = "refine_plan"]
     ELSE IF v.ok
     THEN [kept EXCEPT !.plan = Some(v.plan),
                       !.messages = request \o <<AssistantMsg(v.plan)>>,
                       !.parsed = <<TRUE>>]
     ELSE [kept EXCEPT !.parsed = <<FALSE>>]

\* mutant of refine_plan: the refined plan goes through the sanity trim
refine_plan_trimming(text, openai, native) ==
  LET request == messages \o <<SystemMsg, RefineMsg(text, plan[1])>>
      raw == chat_complete(openai, native)
      x == ExtractContent(raw.value)
      v == ParseFirst(x.content)
      kept == [exc |-> "none", origin |-> "none", plan |-> plan, messages |-> messages,
               calls |-> 1, parsed |-> <<>>]
  IN IF plan = None THEN [kept EXCEPT !.calls = 0]
     ELSE IF raw.exc # "none" THEN [kept EXCEPT !.exc = raw.exc, !.origin = "chat_complete"]
     ELSE IF x.exc # "none" THEN [kept EXCEPT !.exc = x.exc, !.origin = "refine_plan"]
     ELSE IF v.ok
     THEN [kept EXCEPT !.plan = Some(SanityTrim(v.plan)),
                       !.messages = request \o <<AssistantMsg(SanityTrim(v.plan))>>,
                       !.parsed = <<TRUE>>]
     ELSE [kept EXCEPT !.parsed = <<FALSE>>]

\* refine_plan(state, text): [exc, origin, plan, messages, calls, parsed]
refine_plan(text, openai, native) ==
  LET request == messages \o <<SystemMsg, RefineMsg(text, plan[1])>>
      raw == chat_complete(openai, native)
      x == ExtractContent(raw.value)
      v == ParseFirst(x.content)
      kept == [exc |-> "none", origin |-> "none", plan |-> plan, messages |-> messages,
               calls |-> 1, parsed |-> <<>>]
  IN IF plan = None THEN [kept EXCEPT !.calls = 0]
     ELSE IF raw.exc # "none" THEN [kept EXCEPT !.exc = raw.exc, !.origin = "chat_complete"]
     ELSE IF x.exc # "none" THEN [kept EXCEPT !.exc = x.exc, !.origin = "refine_plan"]
     ELSE IF v.ok
     THEN [kept EXCEPT !.plan = Some(v.plan),
                       !.messages = request \o <<AssistantMsg(v.plan)>>,
                       !.parsed = <<TRUE>>]
     ELSE [kept EXCEPT !.parsed = <<FALSE>>]

\* The Refine Plan button with a non-blank text: refine_plan, then
\* st.success unless refine_plan raised.
Refine(text, openai, native) ==
  /\ pc = "idle"
  /\ ops < MaxOps
  /\ LET r == refine_plan(text, openai, native)
     IN /\ plan' = r.plan
        /\ messages' = r.messages
        /\ exc' = r.exc
        /\ origin' = r.origin
        /\ outcome' = IF r.exc = "none" THEN "returned" ELSE "raised"
        /\ notice' = IF r.exc = "none" THEN "Plan refined!" ELSE "exception"
        /\ calls' = r.calls
        /\ parsed' = r.parsed
  /\ ops' = ops + 1
  /\ op' = "Refine"
  /\ pre' = [plan |-> plan, messages |-> messages, intent |-> intent]
  /\ UNCHANGED <<intent, pc, frame, fn, arg, res>>

Next ==
  \/ \E i \in Intents, geo \in GeoAnswers, w \in WeatherAnswers, poi \in PoiAnswers :
       GenerateBegin(i, geo, w, poi)
  \/ \E e \in Endpoints : GenerateFirstCall(e[1], e[2])
  \/ \E e \in Endpoints : GenerateRepairCall(e[1], e[2])
  \/ \E t \in RefineTexts, e \in Endpoints : Refine(t, e[1], e[2])

Spec == Init /\ [][Next]_vars

\* ------------------------------------------------------ tools/exporters.py
\* datetime.fromisoformat on the date strings of the documents: the dates it
\* parses
IsoDates == {"2024-05-01", "2024-05-02"}

\* hour, minute = map(int, time_str.split(":")) followed by
\* replace(hour=hour, minute=minute): <<hour, minute>>, or <<>> where int(),
\* the unpacking or replace() raises ValueError
SplitClock(time_str) ==
  CASE time_str = "09:00" -> <<9, 0>>
    [] time_str = "10:00" -> <<10, 0>>
    [] time_str = "11:00" -> <<11, 0>>
    [] time_str = "13:00" -> <<13, 0>>
    [] time_str = "14:00" -> <<14, 0>>
    [] time_str = "15:00" -> <<15, 0>>
    [] OTHER -> <<>>

\* the body of the loop over items: [exc, event], times in minutes of the day
EventOf(day, it) ==
  LET time_str == IF "time" \in DOMAIN it THEN it["time"] ELSE <<"09:00">>
      minutes == IF "duration_min" \in DOMAIN it THEN it["duration_min"] ELSE <<90>>
  IN IF time_str = <<>> THEN [exc |-> "AttributeError", event |-> <<>>]
     ELSE IF SplitClock(time_str[1]) = <<>> THEN [exc |-> "ValueError", event |-> <<>>]
     ELSE IF day.date \notin IsoDates THEN [exc |-> "ValueError", event |-> <<>>]
     ELSE IF minutes = <<>> THEN [exc |-> "TypeError", event |-> <<>>]
     ELSE LET start == SplitClock(time_str[1])[1] * 60 + SplitClock(time_str[1])[2]
          IN [exc |-> "none",
              event |-> [summary |-> IF "name" \in DOMAIN it THEN it["name"] ELSE <<"Activity">>,
                         date |-> day.date,
                         dtstart |-> start,
                         dtend |-> start + minutes[1]]]

RECURSIVE EventsFrom(_, _, _)
\* the two loops from item i of day d on: the results of the loop bodies in
\* plan order
EventsFrom(days, d, i) ==
  IF d > Len(days) THEN <<>>
  ELSE IF i > Len(days[d].items) THEN EventsFrom(days, d + 1, 1)
  ELSE <<EventOf(days[d], days[d].items[i])>> \o EventsFrom(days, d, i + 1)

\* itinerary_to_ics(plan): [exc, events]; the first loop body that raises
\* ends the export
itinerary_to_ics(itin) ==
  LET made == EventsFrom(itin.daily_plan, 1, 1)
      failed == {k \in 1..Len(made) : made[k].exc # "none"}
  IN IF "start" \notin DOMAIN itin.date_range THEN [exc |-> "KeyError", events |-> <<>>]
     ELSE IF itin.date_range.start \notin IsoDates THEN [exc |-> "ValueError", events |-> <<>>]
     ELSE IF failed # {}
     THEN [exc |-> made[CHOOSE k \in failed : \A j \in failed : k <= j].exc, events |-> <<>>]
     ELSE [exc |-> "none", events |-> [k \in 1..Len(made) |-> made[k].event]]

\* ------------------------------------------------- function applications
\* One application of one function of the pipeline to one argument: fn and
\* arg are chosen initially, res is None until the function has been applied.
RECURSIVE SeqsUpTo(_, _)
\* the sequences over S of length at most n
SeqsUpTo(S, n) ==
  IF n = 0 THEN {<<>>}
  ELSE LET shorter == SeqsUpTo(S, n - 1)
       IN shorter \cup {Append(q, x) : q \in {r \in shorter : Len(r) = n - 1}, x \in S}

ItHalf == [name |-> Some("Viewpoint"), lat |-> Some(1)]

\* validated items: near and far apart, on the equator, without coordinates
TrimItems == {ItemDump(it) : it \in {ItCastle, ItBeach, ItCafe, ItEquatorWest, ItEquatorEast,
                                      ItWalk, ItHalf}}

PlanOf(days) ==
  [destination |-> Dest[1], date_range |-> Range[1], daily_plan |-> days, summary |-> Summary[1]]

DayOf(date, items) == [date |-> date, theme |-> None, items |-> items]

\* plans of no day, of one day, and of a first day followed by a second one
TrimArgs ==
  {PlanOf(<<>>)}
    \cup {PlanOf(<<DayOf("2024-05-01", l)>>) : l \in SeqsUpTo(TrimItems, MaxItems)}
    \cup {PlanOf(<<DayOf("2024-05-01", l), DayOf("2024-05-02", m)>>) :
            l \in SeqsUpTo(TrimItems, MaxItems),
            m \in {<<ItemDump(ItBeach)>>, <<ItemDump(ItCafe), ItemDump(ItBeach)>>}}
    \cup {FallbackPlan(c, None, None) : c \in {NullCity, Lisbon}}

\* the endpoints of the sessions, and endpoints answering 200 with a body
\* that is not JSON
CallArgs ==
  Endpoints
    \cup {<<Replied(200, Body("not_json", NoneText)), n>> :
            n \in {Replied(200, Body("full", Prose)), Replied(200, Body("not_json", NoneText)),
                   Refused}}
    \cup {<<Replied(s, NoBody), Replied(200, Body("full", Plain(DocTour)))>> : s \in {401, 503}}

ItTicketed == [name |-> Some("Tower"), time |-> Some("15:00"), cost |-> Some(12)]

ItNullTime == [name |-> Some("Market"), time |-> None]

ItNullType == [name |-> Some("Garden"), type |-> None, duration_min |-> Some(45)]

ItNullName == [name |-> None, time |-> Some("10:00")]

\* items as a model writes them: complete, sparse, with a key the schema
\* does not declare, with null in a field
RawItems == {ItCastle, ItBeach, ItWalk, ItNameless, ItTicketed, ItNullTime, ItNullType, ItNullName}

DocVersioned == [k \in DOMAIN DocTour \cup {"version"} |-> IF k = "version" THEN Some(2) ELSE DocTour[k]]

\* parsed values: one-day documents over RawItems, the documents of the
\* sessions, and documents with a field missing, null or undeclared
ValidateArgs ==
  {Doc(<<Day("2024-05-01", l)>>) : l \in SeqsUpTo(RawItems, 2)}
    \cup GoodDocs \cup BadDocs
    \cup {DocVersioned,
          <<>>,
          Doc(<<>>),
          Doc(<<[date |-> Some("2024-05-01"), items |-> Some(<<ItWalk>>), weather |-> Some("sunny")]>>),
          Doc(<<[date |-> Some("2024-05-01"), theme |-> None, items |-> None]>>),
          Doc(<<[date |-> None, items |-> Some(<<ItWalk>>)]>>),
          Doc(<<[theme |-> Some("Old town"), items |-> Some(<<ItWalk>>)]>>),
          [destination |-> Dest, date_range |-> Range, daily_plan |-> None, summary |-> Summary],
          [destination |-> None, date_range |-> Range, daily_plan |-> Some(<<>>), summary |-> Summary]}

ItMorning == [name |-> Some("Harbour"), time |-> Some("morning"), duration_min |-> Some(30)]

\* validated items: complete, with duration_min null, with defaults only,
\* with a time that is not HH:MM
ExportItems == {ItemDump(it) : it \in {ItCastle, ItBeach, ItWalk, ItMorning}}

\* validated plans of one or two days, with a date that is not ISO, with a
\* date_range without start, and the fallback plans
ExportArgs ==
  {PlanOf(<<DayOf("2024-05-01", l)>>) : l \in SeqsUpTo(ExportItems, 2)}
    \cup {PlanOf(<<DayOf("2024-05-01", l), DayOf("2024-05-02", <<ItemDump(ItCafe)>>)>>) :
            l \in SeqsUpTo(ExportItems, 2)}
    \cup {PlanOf(<<DayOf("Day 1", <<ItemDump(ItCastle)>>)>>),
          [PlanOf(<<DayOf("2024-05-01", <<ItemDump(ItCastle)>>)>>) EXCEPT !.date_range = [end |-> "2024-05-02"]],
          FallbackPlan(Lisbon, <<"2024-05-01">>, <<"2024-05-02">>)}

ApplyTrim ==
  /\ fn = "sanity_trim"
  /\ res = None
  /\ res' = Some(SanityTrim(arg))
  /\ UNCHANGED <<messages, intent, plan, pc, frame, ops, op, outcome, exc, calls, origin,
                 parsed, pre, notice, fn, arg>>

ApplyChat ==
  /\ fn = "chat_complete"
  /\ res = None
  /\ res' = Some(chat_complete(arg[1], arg[2]))
  /\ UNCHANGED <<messages, intent, plan, pc, frame, ops, op, outcome, exc, calls, origin,
                 parsed, pre, notice, fn, arg>>

ApplyValidate ==
  /\ fn = "model_validate"
  /\ res = None
  /\ res' = Some(model_validate(arg))
  /\ UNCHANGED <<messages, intent, plan, pc, frame, ops, op, outcome, exc, calls, origin,
                 parsed, pre, notice, fn, arg>>

ApplyExport ==
  /\ fn = "itinerary_to_ics"
  /\ res = None
  /\ res' = Some(itinerary_to_ics(arg))
  /\ UNCHANGED <<messages, intent, plan, pc, frame, ops, op, outcome, exc, calls, origin,
                 parsed, pre, notice, fn, arg>>

CalcInit ==
  /\ Fresh
  /\ res = None
  /\ \/ fn = "sanity_trim" /\ arg \in TrimArgs
     \/ fn = "chat_complete" /\ arg \in CallArgs
     \/ fn = "model_validate" /\ arg \in ValidateArgs
     \/ fn = "itinerary_to_ics" /\ arg \in ExportArgs

CalcNext ==
  \/ ApplyTrim
  \/ ApplyChat
  \/ ApplyValidate
  \/ ApplyExport

Calc == CalcInit /\ [][CalcNext]_vars

\* ============================================================== properties
\* The Itinerary schema, read off a stored plan: the four top-level fields,
\* a date on every day, a name on every item.
SchemaValid(p) ==
  /\ {"destination", "date_range", "daily_plan", "summary"} \subseteq DOMAIN p
  /\ \A d \in 1..Len(p.daily_plan) :
       /\ "date" \in DOMAIN p.daily_plan[d]
       /\ \A k \in 1..Len(p.daily_plan[d].items) :
            /\ "name" \in DOMAIN p.daily_plan[d].items[k]
            /\ p.daily_plan[d].items[k]["name"] # <<>>

\* an invocation of Generate has ended (by returning or by raising)
GenerateEnded == op = "Generate" /\ pc = "idle"

\* the destination of the grounding payload Generate last sent
SentDestination == messages[Len(messages) - 1].content.task.destination

\* C1: whenever no Model Client call of a Generate invocation raised,
\* Generate returns normally and state.plan is a schema-valid plan.
C1_GenerateAlwaysYieldsPlan ==
  (GenerateEnded /\ origin # "chat_complete") =>
    /\ outcome = "returned"
    /\ plan # <<>>
    /\ SchemaValid(plan[1])

\* C2: when both the first and the repair response fail parsing or
\* validation, the stored plan is the deterministic fallback: 3 days, each
\* "Sightseeing" at 09:00 then "Local cuisine" at 14:00 (nothing pruned),
\* pace moderate with the placeholder cost, the destination that was sent to
\* the model (all null when no destination was asked for), schema-valid.
C2_FallbackWhenBothFail ==
  (GenerateEnded /\ outcome = "returned" /\ parsed = <<FALSE, FALSE>>) =>
    LET p == plan[1]
    IN /\ Len(p.daily_plan) = 3
       /\ \A d \in 1..3 :
            /\ Len(p.daily_plan[d].items) = 2
            /\ p.daily_plan[d].items[1]["name"] = <<"Sightseeing">>
            /\ p.daily_plan[d].items[1]["time"] = <<"09:00">>
            /\ p.daily_plan[d].items[2]["name"] = <<"Local cuisine">>
            /\ p.daily_plan[d].items[2]["time"] = <<"14:00">>
       /\ p.summary.pace = "moderate"
       /\ p.summary.est_cost_gbp = 500
       /\ p.destination = SentDestination
       /\ (~TruthyStr(Get(intent, "dest"))) =>
            p.destination = [city |-> <<>>, country |-> <<>>, lat |-> <<>>, lon |-> <<>>]
       /\ SchemaValid(p)

\* C2 witness: a fallback plan anchored on a geocoded destination
C2_Witness ==
  /\ GenerateEnded
  /\ outcome = "returned"
  /\ parsed = <<FALSE, FALSE>>
  /\ plan[1].destination.city = <<"Lisbon">>

\* C3: state.plan is always absent or a schema-valid document.
C3_PlanAbsentOrValid == plan = <<>> \/ SchemaValid(plan[1])

\* C3 witness: a plan stored by Refine over a plan stored by Generate
C3_Witness == op = "Refine" /\ parsed = <<TRUE>> /\ plan # pre.plan

\* C4: Generate calls the Model Client once when its first response parses
\* and validates and twice otherwise; Refine on a present plan calls it once.
C4_CallCounts ==
  /\ (GenerateEnded /\ ~(calls = 1 /\ origin = "chat_complete")) =>
       calls = IF parsed # <<>> /\ parsed[1] THEN 1 ELSE 2
  /\ (op = "Refine" /\ pre.plan # <<>>) => calls = 1

\* C5: a Refine whose response fails parsing or validation makes no repair
\* call and leaves state.plan and state.messages as they were.
C5_RefineFailureKeepsState ==
  (op = "Refine" /\ parsed = <<FALSE>>) =>
    /\ calls = 1
    /\ plan = pre.plan
    /\ messages = pre.messages

C5_Witness == op = "Refine" /\ parsed = <<FALSE>> /\ outcome = "returned"

\* C6: a Refine whose response fails parsing or validation tells its caller:
\* it raises, or what the caller shows is not the success notice.
C6_RefineFailureReported ==
  (op = "Refine" /\ parsed = <<FALSE>>) =>
    (outcome = "raised" \/ notice # "Plan refined!")

\* C7: Refine on a state without a plan calls no model and changes nothing.
C7_RefineWithoutPlanIsNoOp ==
  (op = "Refine" /\ pre.plan = <<>>) =>
    /\ calls = 0
    /\ outcome = "returned"
    /\ plan = <<>>
    /\ messages = pre.messages
    /\ intent = pre.intent

\* C7 witness: Refine with no plan, after a Generate that raised
C7_Witness == op = "Refine" /\ pre.plan = <<>> /\ ops = 2 /\ intent # <<>>

\* C8: when the Model Client raises, the invocation raises that error and
\* state.plan and state.messages are what they were before it.
C8_UnreachableLeavesState ==
  (pc = "idle" /\ origin = "chat_complete") =>
    /\ outcome = "raised"
    /\ exc \in {"ConnectionError", "ReadTimeout", "HTTPError", "AttributeError"}
    /\ plan = pre.plan
    /\ messages = pre.messages

\* C8 witness: the repair call of a Generate over an earlier plan raises
C8_Witness ==
  /\ op = "Generate"
  /\ calls = 2
  /\ origin = "chat_complete"
  /\ pre.plan # <<>>

\* C9: state.messages only grows: the transcript an invocation started from
\* is a prefix of the current one, and entry 1 is the persona message.
C9_TranscriptAppendOnly ==
  /\ messages[1] = [role |-> "system", content |-> [text |-> "PERSONA"]]
  /\ Len(pre.messages) <= Len(messages)
  /\ \A k \in 1..Len(pre.messages) : messages[k] = pre.messages[k]

\* C9 witness: a second invocation appended to a transcript that had grown
C9_Witness == Len(pre.messages) > 1 /\ Len(messages) > Len(pre.messages)

\* an item carries coordinates: lat and lon present and not null
HasCoords(it) == Get(it, "lat") # <<>> /\ Get(it, "lon") # <<>>

\* C10: after Generate returns, adjacent items of a day that both carry
\* coordinates are at most 5.5 km apart.
C10_NoLongJumpAfterGenerate ==
  (GenerateEnded /\ outcome = "returned") =>
    \A d \in 1..Len(plan[1].daily_plan) :
      LET items == plan[1].daily_plan[d].items
      IN \A k \in 1..(Len(items) - 1) :
           (HasCoords(items[k]) /\ HasCoords(items[k + 1])) =>
             haversine_m2(items[k]["lat"][1], items[k]["lon"][1],
                          items[k + 1]["lat"][1], items[k + 1]["lon"][1]) <= 5500 * 5500

RECURSIVE IsSubseq(_, _)
\* s is t with some entries left out
IsSubseq(s, t) ==
  IF s = <<>> THEN TRUE
  ELSE IF t = <<>> THEN FALSE
  ELSE IF Head(s) = Head(t) THEN IsSubseq(Tail(s), Tail(t))
  ELSE IsSubseq(s, Tail(t))

Trimmed == fn = "sanity_trim" /\ res # <<>>

\* C11: the trim keeps the days as they are; each day's items become a
\* subsequence of its items, and the first item of a day is kept.
C11_TrimOnlyRemoves ==
  Trimmed =>
    /\ Len(res[1].daily_plan) = Len(arg.daily_plan)
    /\ \A d \in 1..Len(arg.daily_plan) :
         LET in == arg.daily_plan[d]
             out == res[1].daily_plan[d]
         IN /\ out.date = in.date
            /\ out.theme = in.theme
            /\ IsSubseq(out.items, in.items)
            /\ in.items # <<>> => (out.items # <<>> /\ out.items[1] = in.items[1])

\* C11 witness: two days, items removed from the first day only
C11_Witness ==
  /\ Trimmed
  /\ Len(arg.daily_plan) = 2
  /\ Len(res[1].daily_plan[1].items) < Len(arg.daily_plan[1].items)
  /\ res[1].daily_plan[2].items = arg.daily_plan[2].items

\* C12: trimming a trimmed plan changes nothing.
C12_TrimIdempotent == Trimmed => SanityTrim(res[1]) = res[1]

\* C12 witness: a trimmed plan that differs from the plan given
C12_Witness == Trimmed /\ res[1] # arg /\ Len(res[1].daily_plan[1].items) >= 2

RECURSIVE RefScan(_, _)
\* the items kept after `ref`, the latest kept item: an item is dropped
\* exactly when it and ref both carry coordinates more than 5.5 km apart
RefScan(ref, items) ==
  IF items = <<>> THEN <<>>
  ELSE LET it == Head(items)
           located == /\ Get(ref, "lat") # <<>> /\ Get(ref, "lon") # <<>>
                      /\ Get(it, "lat") # <<>> /\ Get(it, "lon") # <<>>
       IN IF located /\ TooFar(ref, it) THEN RefScan(ref, Tail(items))
          ELSE <<it>> \o RefScan(it, Tail(items))

\* the first item of a day has nothing to be compared with
RefDay(items) == IF items = <<>> THEN <<>> ELSE <<Head(items)>> \o RefScan(Head(items), Tail(items))

\* C19: in every day the trim keeps exactly the items the rule keeps: an
\* item is dropped iff it and the latest kept item of that day both carry
\* coordinates more than 5.5 km apart.
C19_TrimRule ==
  Trimmed =>
    \A d \in 1..Len(arg.daily_plan) :
      res[1].daily_plan[d].items = RefDay(arg.daily_plan[d].items)

Called == fn = "chat_complete" /\ res # <<>>

\* the generic attempt of the call did not give a response
GenericFailed ==
  \/ arg[1].net # "replied"
  \/ arg[1].status >= 400
  \/ arg[1].body.shape = "not_json"

\* the native attempt of the call did not give a response
NativeFailed ==
  \/ arg[2].net # "replied"
  \/ arg[2].status >= 400
  \/ arg[2].body.shape \notin {"full", "no_message"}

\* C13: chat_complete sends the generic request first, sends the native
\* request only when the generic attempt failed, sends at most one request
\* per shape, and raises when both attempts fail.
C13_GenericThenNative ==
  Called =>
    LET sent == res[1].requests
    IN /\ Len(sent) \in {1, 2}
       /\ sent[1] = "/v1/chat/completions"
       /\ Len(sent) = 2 => (sent[2] = "/api/chat" /\ GenericFailed)
       /\ ~GenericFailed => (sent = <<"/v1/chat/completions">> /\ res[1].exc = "none")
       /\ (GenericFailed /\ NativeFailed) => res[1].exc # "none"

\* C13 witness: both attempts failed and the call raised after two requests
C13_Witness ==
  /\ Called
  /\ GenericFailed
  /\ NativeFailed
  /\ Len(res[1].requests) = 2
  /\ res[1].exc # "none"

\* the generic attempt failed by a refused connection or an HTTP 400/404
RouteMissing ==
  \/ arg[1].net = "refused"
  \/ (arg[1].net = "replied" /\ arg[1].status \in {400, 404})

\* C14 as stated: the native request is sent exactly when the generic
\* attempt failed by connection refusal or HTTP 400/404; after any other
\* generic failure it is not sent and the generic error is raised.
C14_NativeOnlyOnRouteMissing ==
  Called =>
    /\ ("/api/chat" \in {res[1].requests[k] : k \in 1..Len(res[1].requests)}) <=> RouteMissing
    /\ (GenericFailed /\ ~RouteMissing) => res[1].exc = _try_openai(arg[1]).exc

\* C14 amended: the native request is sent exactly when the generic attempt
\* failed, for whatever reason; the call then gives what the native attempt
\* gives, its response or its error, and the generic error is never raised
\* unless the native attempt raises the same one.
C14_NativeOnAnyFailure ==
  Called =>
    /\ ("/api/chat" \in {res[1].requests[k] : k \in 1..Len(res[1].requests)}) <=> GenericFailed
    /\ GenericFailed =>
         /\ res[1].exc = _try_ollama(arg[2]).exc
         /\ res[1].value = _try_ollama(arg[2]).value

\* C14 witness: HTTP 500 on the generic route, answered by the native one
C14_Witness ==
  /\ Called
  /\ arg[1].net = "replied"
  /\ arg[1].status = 500
  /\ res[1].requests = <<"/v1/chat/completions", "/api/chat">>
  /\ res[1].exc = "none"

Validated == fn = "model_validate" /\ res # <<>>

\* key k of dict d is present and not null
Given(d, k) == k \in DOMAIN d /\ d[k] # <<>>

\* the days of a parsed document and the items of a parsed day
DaysOf(data) == data["daily_plan"][1]

ItemsOf(day) == IF Given(day, "items") THEN day["items"][1] ELSE <<>>

\* the four fields are there, every day has a date, every item has a name
Required(data) ==
  /\ \A k \in {"destination", "date_range", "daily_plan", "summary"} : Given(data, k)
  /\ \A d \in 1..Len(DaysOf(data)) :
       /\ Given(DaysOf(data)[d], "date")
       /\ \A i \in 1..Len(ItemsOf(DaysOf(data)[d])) : Given(ItemsOf(DaysOf(data)[d])[i], "name")

\* the value the claim lets the validator put where the input has no key
Filled(k) ==
  CASE k = "time" -> <<"09:00">>
    [] k = "type" -> <<"sight">>
    [] k = "duration_min" -> <<90>>
    [] OTHER -> <<>>

Accepted(data) ==
  /\ Required(data)
  /\ \A d \in 1..Len(DaysOf(data)) :
       /\ "items" \in DOMAIN DaysOf(data)[d] => DaysOf(data)[d]["items"] # <<>>
       /\ \A i \in 1..Len(ItemsOf(DaysOf(data)[d])) :
            \A k \in {"time", "type"} \cap DOMAIN ItemsOf(DaysOf(data)[d])[i] :
              ItemsOf(DaysOf(data)[d])[i][k] # <<>>

Exported == fn = "itinerary_to_ics" /\ res # <<>>

\* the dates of the document are ISO calendar dates
DatesGiven ==
  /\ "start" \in DOMAIN arg.date_range
  /\ arg.date_range.start \in IsoDates
  /\ \A d \in 1..Len(arg.daily_plan) : arg.daily_plan[d].date \in IsoDates

RECURSIVE ItemsFrom(_, _)
\* the items of days d.. in plan order, each with the date of its day
ItemsFrom(days, d) ==
  IF d > Len(days) THEN <<>>
  ELSE [i \in 1..Len(days[d].items) |-> [date |-> days[d].date, item |-> days[d].items[i]]]
         \o ItemsFrom(days, d + 1)

\* C18: the export of a schema-valid document, whatever the time strings
\* and with duration_min null or given, raises nothing and gives one event
\* per item in plan order, on the date of its day, lasting duration_min
\* minutes, or 90 when duration_min is not given.
C18_ExportEveryItem ==
  (Exported /\ DatesGiven) =>
    LET all == ItemsFrom(arg.daily_plan, 1)
    IN /\ res[1].exc = "none"
       /\ Len(res[1].events) = Len(all)
       /\ \A k \in 1..Len(all) :
            /\ res[1].events[k].summary = all[k].item["name"]
            /\ res[1].events[k].date = all[k].date
            /\ res[1].events[k].dtend - res[1].events[k].dtstart =
                 IF all[k].item["duration_min"] = <<>> THEN 90 ELSE all[k].item["duration_min"][1]

\* the grounding payload of the request a running Generate built
Payload == frame[1].messages[Len(frame[1].messages)].content.task

\* C15: Generate asks the geocoder only when intent.dest is non-empty; when
\* dest is empty or the geocoder failed or found nothing, the destination is
\* the all-null placeholder, it is the destination of the payload, and the
\* Model Client is called all the same.
C15_PlaceholderDestination ==
  /\ frame # <<>> =>
       /\ pc \in {"first_call", "repair_call"}
       /\ frame[1].lookups.geocoder # "skipped" => TruthyStr(Get(intent, "dest"))
       /\ (~TruthyStr(Get(intent, "dest")) \/ frame[1].lookups.geocoder \in {"empty", "error"}) =>
            /\ frame[1].city = [city |-> <<>>, country |-> <<>>, lat |-> <<>>, lon |-> <<>>]
            /\ Payload.destination = frame[1].city
  /\ pc = "repair_call" => calls = 1
  /\ GenerateEnded => calls >= 1

\* C15 witness: the geocoder failed and the model was called with the
\* placeholder
C15_Witness ==
  /\ pc = "repair_call"
  /\ calls = 1
  /\ frame[1].lookups.geocoder = "error"
  /\ Payload.destination.city = <<>>

\* C16: Generate asks for the weather only for a resolved city and for POIs
\* only for known coordinates; a weather failure leaves weather out, a POI
\* failure or empty answer gives an empty hint list, and the Model Client is
\* called whatever the lookups gave.
C16_LookupsNeverAbort ==
  /\ frame # <<>> =>
       /\ pc \in {"first_call", "repair_call"}
       /\ frame[1].lookups.weather # "skipped" => frame[1].city.city # <<>>
       /\ frame[1].lookups.pois # "skipped" =>
            (frame[1].city.lat # <<>> /\ frame[1].city.lon # <<>>)
       /\ frame[1].lookups.weather \in {"error", "skipped"} => frame[1].weather = <<>>
       /\ frame[1].lookups.pois \in {"error", "none", "skipped"} => Payload.poi_hint = <<>>
       /\ frame[1].lookups.pois = "some" => Len(Payload.poi_hint) = 1
  /\ (GenerateEnded /\ outcome = "returned") => calls \in {1, 2}

\* C16 witness: both lookups were made and failed, and the model was called
C16_Witness ==
  /\ pc = "repair_call"
  /\ calls = 1
  /\ frame[1].lookups.weather = "error"
  /\ frame[1].lookups.pois = "error"

\* C20: when Generate returns, state.plan is the trimmed candidate or
\* fallback plan and state.messages is the transcript it started from plus
\* three entries: the schema-instruction system message, the user message
\* with the grounding payload, and the assistant message holding the
\* serialization of state.plan cut to 3000 characters; nothing of a repair
\* round is stored.
C20_GenerateCommit ==
  (GenerateEnded /\ outcome = "returned") =>
    LET n == Len(pre.messages)
    IN /\ plan # <<>>
       /\ \A d \in 1..Len(plan[1].daily_plan) :
            PruneDay(plan[1].daily_plan[d].items) = plan[1].daily_plan[d].items
       /\ parsed[Len(parsed)] =>
            \E doc \in GoodDocs :
              /\ plan[1].summary = doc["summary"][1]
              /\ Len(plan[1].daily_plan) = Len(doc["daily_plan"][1])
       /\ ~parsed[Len(parsed)] => plan[1].summary.est_cost_gbp = 500
       /\ Len(messages) = n + 3
       /\ \A k \in 1..n : messages[k] = pre.messages[k]
       /\ messages[n + 1] = [role |-> "system", content |-> [text |-> "SYSTEM_INSTRUCT"]]
       /\ messages[n + 2].role = "user"
       /\ messages[n + 2].content.text = "generate"
       /\ messages[n + 2].content.task.origin = Get(intent, "origin")
       /\ messages[n + 2].content.task.destination = plan[1].destination
            \/ plan[1].destination = Dest[1]
       /\ messages[n + 3] =
            [role |-> "assistant", content |-> [text |-> "json", plan |-> plan[1], cut |-> 3000]]

\* C20 witness: a second Generate that returned after a repair round
C20_Witness ==
  /\ GenerateEnded
  /\ outcome = "returned"
  /\ calls = 2
  /\ Len(pre.messages) = 4
  /\ Len(messages) = 7

\* a Refine whose response parsed and validated
Refined == op = "Refine" /\ parsed = <<TRUE>>

\* C21: after a Refine whose response parses and validates, state.plan is
\* the validated response with all its items, untrimmed, and state.messages
\* is the transcript it started from plus the system message, the user
\* message with the request and the plan it started from, and the assistant
\* message holding the serialization of state.plan cut to 3000 characters.
C21_RefineCommit ==
  Refined =>
    LET n == Len(pre.messages)
    IN /\ outcome = "returned"
       /\ plan # <<>>
       /\ \E doc \in GoodDocs :
            /\ plan[1].destination = doc["destination"][1]
            /\ plan[1].summary = doc["summary"][1]
            /\ Len(plan[1].daily_plan) = Len(doc["daily_plan"][1])
            /\ \A d \in 1..Len(plan[1].daily_plan) :
                 LET given == IF "items" \in DOMAIN doc["daily_plan"][1][d]
                              THEN doc["daily_plan"][1][d]["items"][1] ELSE <<>>
                     kept == plan[1].daily_plan[d].items
                 IN /\ Len(kept) = Len(given)
                    /\ \A k \in 1..Len(given) : \A f \in DOMAIN given[k] : kept[k][f] = given[k][f]
       /\ Len(messages) = n + 3
       /\ \A k \in 1..n : messages[k] = pre.messages[k]
       /\ messages[n + 1] = [role |-> "system", content |-> [text |-> "SYSTEM_INSTRUCT"]]
       /\ messages[n + 2].role = "user"
       /\ messages[n + 2].content.text = "refine"
       /\ messages[n + 2].content.request \in RefineTexts
       /\ messages[n + 2].content.plan = pre.plan[1]
       /\ messages[n + 3] =
            [role |-> "assistant", content |-> [text |-> "json", plan |-> plan[1], cut |-> 3000]]

\* C21 witness: the refined plan keeps two adjacent items, both with
\* non-zero coordinates, more than 5.5 km apart
C21_Witness ==
  /\ Refined
  /\ \E k \in 1..(Len(plan[1].daily_plan[1].items) - 1) :
       LET a == plan[1].daily_plan[1].items[k]
           b == plan[1].daily_plan[1].items[k + 1]
       IN /\ HasCoords(a) /\ HasCoords(b)
          /\ a["lat"][1] # 0 /\ b["lat"][1] # 0
          /\ haversine_m2(a["lat"][1], a["lon"][1], b["lat"][1], b["lon"][1]) > 5500 * 5500

\* C22: the grounding payload of the request Generate sends carries origin,
\* start, end, budget, vibe and description as the intent gives them, the
\* destination the lookup gave and the POI hints.
C22_PayloadFields ==
  frame # <<>> =>
    /\ {"origin", "destination", "start", "end", "budget", "vibe", "description", "poi_hint"}
         \subseteq DOMAIN Payload
    /\ \A k \in {"origin", "start", "end", "budget", "vibe", "description"} :
         Payload[k] = Get(intent, k)
    /\ Payload.destination = frame[1].city
    /\ Len(Payload.poi_hint) = IF frame[1].lookups.pois = "some" THEN 1 ELSE 0

====
